---- MODULE Spec2Model ----
(***************************************************************************)
(* Markdown asset pipeline of leaf-api: the article exporter               *)
(* (ArticleExporter.ExportToZip) and the image normalizer                  *)
(* (ImageProcessor.ProcessMarkdownImages, driven by cmd/fix_images).       *)
(*                                                                         *)
(* Text model.  A markdown text is a sequence of elements: a plain text    *)
(* chunk, the text `__IMG_PLACEHOLDER_n__`, or an image link               *)
(* `![alt](url)` whose alt is again a text and whose url is a sequence of  *)
(* lexemes ("https://", "cdn.nlark.com", "/", "x.png").  Two texts are the *)
(* same string exactly when they are the same sequence.  The lexemes are   *)
(* cut so that every prefix/substring the code searches for is a whole     *)
(* lexeme, and every lexeme either ends in "/" or contains no "/".         *)
(***************************************************************************)
EXTENDS Integers, Sequences, FiniteSets, TLC

\* ---------------------------------------------------------------- bounds
MaxDocs == 2        \* articles handed to one ExportToZip / fix_images run
MaxBody == 2        \* elements in one article body
StackLimit == 3     \* nested downloadImage calls the runtime allows before it aborts
MaxSegs == 3        \* lexemes after the host in a url given to extractFilename alone
MaxWords == 3       \* words, separated by single spaces, in an Authorization header
MaxCount == 2       \* largest value a like/favorite/comment counter is driven to

\* ----------------------------------------------------------- text model
Txt(s) == [k |-> "txt", s |-> s, n |-> 0, alt |-> <<>>, url |-> <<>>]
Img(alt, url) == [k |-> "img", s |-> "", n |-> 0, alt |-> alt, url |-> url]
\* fmt.Sprintf("__IMG_PLACEHOLDER_%d__", i)
Placeholder(i) == [k |-> "ph", s |-> "", n |-> i, alt |-> <<>>, url |-> <<>>]

\* URLs of the inputs
LocalURL == <<"/uploads/", "a/", "x.png">>
YuqueURL == <<"https://", "cdn.nlark.com", "/", "x.png">>
PlainURL == <<"https://", "a.com", "/", "x.png">>
RelURL == <<"./", "images/", "x.png">>
URLs == {LocalURL, YuqueURL, PlainURL, RelURL}

\* the input alphabet of article bodies
Elems ==
  { Img(<<Txt("a")>>, LocalURL), Img(<<Txt("a")>>, YuqueURL),
    Img(<<Txt("b")>>, YuqueURL), Img(<<Txt("a")>>, PlainURL),
    Img(<<Txt("a")>>, RelURL), Img(<<Placeholder(0)>>, RelURL),
    Txt("cdn.nlark.com") }

RECURSIVE SeqsUpTo(_)
SeqsUpTo(n) ==
  IF n = 0 THEN {<<>>}
  ELSE LET S == SeqsUpTo(n - 1)
       IN S \cup {Append(s, e) : s \in {t \in S : Len(t) = n - 1}, e \in Elems}

Bodies == SeqsUpTo(MaxBody)

\* ------------------------------------------------------ string helpers
\* lexemes that end in "/", that start with "?", that contain "."
SlashLex == {"https://", "http://", "/uploads/", "a/", "etc/", "./", "../",
             "images/", "/"}
QueryLex == {"?url="}
DotLex == {"x.png", "cdn.nlark.com", "a.com", "images.weserv.nl", "./", "../"}

HasPrefix(url, p) == Len(url) > 0 /\ url[1] = p
Contains(url, lex) == \E i \in DOMAIN url : url[i] = lex

\* the part after the last "/" : strings.Split(url, "/")[len-1], filepath.Base
LastSegment(url) ==
  LET cut == {i \in DOMAIN url : url[i] \in SlashLex}
      from == IF cut = {} THEN 1 ELSE (CHOOSE i \in cut : \A j \in cut : j <= i) + 1
  IN SubSeq(url, from, Len(url))

\* strings.Split(filename, "?")[0]
StripQuery(name) ==
  LET q == {i \in DOMAIN name : name[i] \in QueryLex}
  IN IF q = {} THEN name
     ELSE SubSeq(name, 1, (CHOOSE i \in q : \A j \in q : i <= j) - 1)

IsHostile(url) == Contains(url, "cdn.nlark.com") \/ Contains(url, "yuque.com")
ProxyURL(url) == <<"https://", "images.weserv.nl", "/", "?url=">> \o url

ContentTypes == {"image/png", "text/html"}

getExtensionFromContentType(contentType) ==
  CASE contentType = "image/jpeg" -> ".jpg"
    [] contentType = "image/png" -> ".png"
    [] contentType = "image/gif" -> ".gif"
    [] contentType = "image/webp" -> ".webp"
    [] OTHER -> ".jpg"

extractFilename(url, contentType) ==
  LET filename == StripQuery(LastSegment(url))
  IN IF \E i \in DOMAIN filename : filename[i] \in DotLex
     THEN filename
     ELSE <<"UnixNano", getExtensionFromContentType(contentType)>>

\* ------------------------------------------------------- extractImages
\* (mutant) the pattern matches every element of the text
FindAllElements(markdown) == markdown

\* imgRegex.FindAllStringSubmatch: the image links of the text, in order
FindAllImages(markdown) == SelectSeq(markdown, LAMBDA e : e.k = "img")

\* (mutant) only the first occurrence is replaced
ReplaceFirstImageOf(markdown, originalURL, placeholder) ==
  [j \in DOMAIN markdown |->
     IF /\ markdown[j].k = "img" /\ markdown[j].url = originalURL
        /\ \A i \in 1..(j - 1) : ~(markdown[i].k = "img" /\ markdown[i].url = originalURL)
     THEN placeholder ELSE markdown[j]]

\* oldPattern.ReplaceAllString(markdown, placeholder)
ReplaceImagesOf(markdown, originalURL, placeholder) ==
  [j \in DOMAIN markdown |->
     IF markdown[j].k = "img" /\ markdown[j].url = originalURL
     THEN placeholder ELSE markdown[j]]

ImageType(originalURL) ==
  IF HasPrefix(originalURL, "/uploads/") THEN "local"
  ELSE IF HasPrefix(originalURL, "http://") \/ HasPrefix(originalURL, "https://")
       THEN "remote" ELSE ""

RECURSIVE extractLoop(_, _, _, _, _)
extractLoop(matches, i, markdown, imageInfos, seen) ==
  IF i > Len(matches) THEN [markdown |-> markdown, imageInfos |-> imageInfos]
  ELSE LET originalURL == matches[i].url
           alt == matches[i].alt
       IN IF HasPrefix(originalURL, "./") \/ HasPrefix(originalURL, "../")
          THEN extractLoop(matches, i + 1, markdown, imageInfos, seen)
          ELSE IF ImageType(originalURL) = ""
          THEN extractLoop(matches, i + 1, markdown, imageInfos, seen)
          ELSE IF originalURL \in seen
          THEN extractLoop(matches, i + 1, markdown, imageInfos, seen)
          ELSE extractLoop(matches, i + 1,
                 ReplaceImagesOf(markdown, originalURL, Placeholder(i - 1)),
                 Append(imageInfos, [Alt |-> alt, OriginalURL |-> originalURL,
                                     Type |-> ImageType(originalURL),
                                     Placeholder |-> i - 1]),
                 seen \cup {originalURL})

extractImages(markdown) == extractLoop(FindAllImages(markdown), 1, markdown, <<>>, {})

\* strings.ReplaceAll(text, "__IMG_PLACEHOLDER_n__", new): every occurrence of
\* the token text, also inside the alt text of a link, in one pass
RECURSIVE ReplaceAll(_, _, _)
ReplaceAll(text, n, new) ==
  [j \in DOMAIN text |->
     IF text[j].k = "ph" /\ text[j].n = n THEN new
     ELSE IF text[j].k = "img" THEN Img(ReplaceAll(text[j].alt, n, new), text[j].url)
     ELSE text[j]]

FrontMatter == Txt("---front matter---")
generateMarkdownWithFrontMatter(body) == <<FrontMatter>> \o body

\* ----------------------------------------------------------------- state
VARIABLES
  pc,               \* position of the running program
  nArticles,        \* len(articles)
  docIdx,           \* articles whose loop iteration has finished
  markdownContent,  \* export: generated text of the current article
  processedMarkdown,
  imageInfos,
  infoIdx,          \* index of the current imgInfo (1-based)
  downloadedImages, \* map[string]string : original URL -> filename
  zipEntries,       \* entries of the archive in order: name and data
  zipClosed,        \* "open", "closed", "failed"
  ret,              \* return value of ExportToZip
  reqURL,           \* url argument of the running download
  attempts,         \* client.Do calls made for the current or last reference
  filename,         \* filename returned by the fetch
  imageData,        \* imageData returned by the fetch: the resource the bytes are of
  fetched,          \* original URLs handed to readLocalImage/downloadImage so far
  outcomes,         \* per reference of the current article: the error, or "none"
  article,          \* fix_images: article.ContentMarkdown of the current article
  content,          \* content inside ProcessMarkdownImages
  matches,          \* matches of imgRegex in the input content
  matchIdx,
  downloads,        \* URLs handed to downloadAndUploadImage for the current article
  uuidSeq,          \* uuid.New() calls so far
  counts,           \* successCount, failCount, skipCount
  dbUpdates,        \* article records updated so far
  runs,             \* finished ProcessMarkdownImages runs on the current article:
                    \* the body returned and the outcomes
  ctx,              \* middleware: the gin.Context of one request
  articleRows,      \* articles table: id -> like_count, favorite_count, comment_count
  repoErr,          \* error returned by the last articleRepo call
  repoCall          \* the last articleRepo call: method, id, and the table before it

exportVars == <<markdownContent, processedMarkdown, imageInfos, infoIdx,
                downloadedImages, zipEntries, zipClosed, ret, filename, imageData,
                fetched>>
fixVars == <<article, content, matches, matchIdx, downloads, uuidSeq, counts, dbUpdates,
             runs>>
repoVars == <<articleRows, repoErr, repoCall>>
vars == <<pc, nArticles, docIdx, reqURL, attempts, outcomes, exportVars, fixVars, ctx,
         repoVars>>

NoRet == [bytes |-> "none", err |-> "none"]
\* a gin.Context: the Authorization header of the request, the keys set with
\* c.Set, the status written, c.Abort() called, the number of c.Next() calls
Context(header) ==
  [header |-> header, keys |-> <<>>, status |-> 0, aborted |-> FALSE, next |-> 0]

InitLocals ==
  /\ nArticles \in 0..MaxDocs
  /\ docIdx = 0
  /\ markdownContent = <<>>
  /\ processedMarkdown = <<>>
  /\ imageInfos = <<>>
  /\ infoIdx = 1
  /\ downloadedImages = <<>>
  /\ zipEntries = <<>>
  /\ zipClosed = "open"
  /\ ret = NoRet
  /\ attempts = 0
  /\ filename = <<>>
  /\ imageData = <<>>
  /\ fetched = {}
  /\ outcomes = <<>>
  /\ article = <<>>
  /\ content = <<>>
  /\ matches = <<>>
  /\ matchIdx = 1
  /\ downloads = <<>>
  /\ uuidSeq = 0
  /\ counts = [success |-> 0, fail |-> 0, skip |-> 0]
  /\ dbUpdates = 0
  /\ runs = <<>>

\* no articleRepo call is made by the exporter, fix_images or the middleware
NoCall == [fn |-> "", id |-> 0, before |-> <<>>]
NoRepo == articleRows = <<>> /\ repoErr = "none" /\ repoCall = NoCall

InitData == InitLocals /\ reqURL = <<>> /\ ctx = Context(<<>>) /\ NoRepo

\* exporter := NewArticleExporter(); exporter.ExportToZip(articles)
Init == pc = "articles" /\ InitData

\* --------------------------------------------------------- ExportToZip
imgInfo == imageInfos[infoIdx]
InImageLoop == pc = "images" /\ infoIdx <= Len(imageInfos)
Cached(u) == u \in DOMAIN downloadedImages
CachedName(u) == downloadedImages[u]
\* localPath := "." + urlPath
LocalPath(urlPath) == <<".">> \o urlPath
\* the file os.ReadFile(path) opens: the path from the working directory with
\* "." and ".." resolved ("../" is kept where it climbs above the working directory)
RECURSIVE ResolveFrom(_, _)
ResolveFrom(dir, path) ==
  IF path = <<>> THEN dir
  ELSE LET seg == Head(path)
           up == dir # <<>> /\ dir[Len(dir)] # "../"
       IN CASE seg \in {".", "./"} -> ResolveFrom(dir, Tail(path))
            [] seg = "../" -> ResolveFrom(IF up THEN SubSeq(dir, 1, Len(dir) - 1)
                                                ELSE Append(dir, seg), Tail(path))
            [] OTHER -> ResolveFrom(Append(dir, seg), Tail(path))
ResolvePath(path) == ResolveFrom(<<>>, path)
\* one entry of the archive; the text of a document entry is not kept
ZipEntry(name, data) == [name |-> name, data |-> data]
Markdown == <<"markdown">>
\* fmt.Sprintf("![%s](./images/%s)", alt, filename)
LocalLink(alt, name) == Img(alt, <<"./", "images/">> \o name)
\* fmt.Sprintf("%d-%s.md", article.ID, title)
generateFilename(id) == <<ToString(id) \o "-title.md">>

\* for _, article := range articles: front matter, extractImages
StartArticle ==
  /\ pc = "articles" /\ docIdx < nArticles
  /\ \E body \in Bodies :
       LET r == extractImages(generateMarkdownWithFrontMatter(body))
       IN /\ markdownContent' = generateMarkdownWithFrontMatter(body)
          /\ processedMarkdown' = r.markdown
          /\ imageInfos' = r.imageInfos
  /\ infoIdx' = 1
  /\ pc' = "images"
  /\ UNCHANGED <<nArticles, ctx, repoVars, docIdx, downloadedImages, zipEntries, zipClosed, ret,
                 reqURL, filename, imageData, attempts, fetched, outcomes, fixVars>>

\* the URL is in downloadedImages: reuse the file name
CacheHit ==
  /\ InImageLoop /\ Cached(imgInfo.OriginalURL)
  /\ processedMarkdown' = ReplaceAll(processedMarkdown, imgInfo.Placeholder,
        LocalLink(imgInfo.Alt, CachedName(imgInfo.OriginalURL)))
  /\ infoIdx' = infoIdx + 1
  /\ outcomes' = Append(outcomes, "cached")
  /\ attempts' = 0
  /\ UNCHANGED <<pc, nArticles, ctx, repoVars, docIdx, markdownContent, imageInfos, downloadedImages,
                 zipEntries, zipClosed, ret, reqURL, filename, imageData, fetched, fixVars>>

\* err != nil after the fetch: put the original link back, next reference
FetchFailed(why) ==
  /\ outcomes' = Append(outcomes, why)
  /\ processedMarkdown' = ReplaceAll(processedMarkdown, imgInfo.Placeholder,
        Img(imgInfo.Alt, imgInfo.OriginalURL))
  /\ infoIdx' = infoIdx + 1
  /\ pc' = "images"
  /\ reqURL' = <<>>
  /\ UNCHANGED <<nArticles, ctx, repoVars, docIdx, markdownContent, imageInfos, downloadedImages,
                 zipEntries, zipClosed, ret, filename, imageData, fixVars>>

\* readLocalImage: os.ReadFile succeeds or fails
ReadLocalImage ==
  /\ InImageLoop /\ ~Cached(imgInfo.OriginalURL) /\ imgInfo.Type = "local"
  /\ fetched' = fetched \cup {imgInfo.OriginalURL}
  /\ attempts' = 0
  /\ \/ /\ filename' = LastSegment(imgInfo.OriginalURL)
        /\ imageData' = ResolvePath(LocalPath(imgInfo.OriginalURL))
        /\ pc' = "addimg"
        /\ UNCHANGED <<nArticles, ctx, repoVars, docIdx, markdownContent, processedMarkdown, imageInfos,
                       infoIdx, downloadedImages, zipEntries, zipClosed, ret, reqURL,
                       outcomes, fixVars>>
     \/ FetchFailed("readfile")

\* ExportToZip calls downloadImage(imgInfo.OriginalURL)
DownloadImage ==
  /\ InImageLoop /\ ~Cached(imgInfo.OriginalURL) /\ imgInfo.Type = "remote"
  /\ fetched' = fetched \cup {imgInfo.OriginalURL}
  /\ reqURL' = imgInfo.OriginalURL
  /\ attempts' = 0
  /\ pc' = "download"
  /\ UNCHANGED <<nArticles, ctx, repoVars, docIdx, markdownContent, processedMarkdown, imageInfos,
                 infoIdx, downloadedImages, zipEntries, zipClosed, ret, filename, imageData,
                 outcomes, fixVars>>

\* client.Do succeeds with status 200 and the body is read
DownloadOK ==
  /\ pc = "download"
  /\ attempts' = attempts + 1
  /\ \E contentType \in ContentTypes : filename' = extractFilename(reqURL, contentType)
  /\ imageData' = imgInfo.OriginalURL
  /\ pc' = "addimg"
  /\ reqURL' = <<>>
  /\ UNCHANGED <<nArticles, ctx, repoVars, docIdx, markdownContent, processedMarkdown, imageInfos,
                 infoIdx, downloadedImages, zipEntries, zipClosed, ret, fetched,
                 outcomes, fixVars>>

\* client.Do fails and the url names a hostile host: return e.downloadImage(proxyURL)
DownloadRetryProxy ==
  /\ pc = "download" /\ IsHostile(reqURL)
  /\ attempts + 1 < StackLimit
  /\ attempts' = attempts + 1
  /\ reqURL' = ProxyURL(reqURL)
  /\ UNCHANGED <<pc, nArticles, ctx, repoVars, docIdx, markdownContent, processedMarkdown, imageInfos,
                 infoIdx, downloadedImages, zipEntries, zipClosed, ret, filename, imageData,
                 fetched, outcomes, fixVars>>

\* the same at the depth the runtime allows. The recursion has no base case
\* while client.Do keeps failing (proxyURL still contains the hostile host), each
\* nested call keeps its frame and a longer url, and the runtime ends the
\* program when they no longer fit
DownloadOverflow ==
  /\ pc = "download" /\ IsHostile(reqURL)
  /\ attempts + 1 >= StackLimit
  /\ attempts' = attempts + 1
  /\ pc' = "crashed"
  /\ UNCHANGED <<nArticles, ctx, repoVars, docIdx, markdownContent, processedMarkdown, imageInfos,
                 infoIdx, downloadedImages, zipEntries, zipClosed, ret, reqURL,
                 filename, imageData, fetched, outcomes, fixVars>>

\* client.Do fails for a url that names no hostile host, or the status is not
\* 200, or io.ReadAll fails: downloadImage returns the error
DownloadError ==
  /\ pc = "download"
  /\ \E why \in {"transport", "status", "readall"} :
       /\ why = "transport" => ~IsHostile(reqURL)
       /\ FetchFailed(why)
  /\ attempts' = attempts + 1
  /\ UNCHANGED fetched

\* (mutant) the file name is not recorded in downloadedImages
AddImageUncached ==
  /\ pc = "addimg"
  /\ \/ /\ zipEntries' = Append(zipEntries, ZipEntry(<<"images/">> \o filename, imageData))
        /\ processedMarkdown' = ReplaceAll(processedMarkdown, imgInfo.Placeholder,
                LocalLink(imgInfo.Alt, filename))
        /\ outcomes' = Append(outcomes, "none")
        /\ UNCHANGED downloadedImages
     \/ /\ outcomes' = Append(outcomes, "zip")
        /\ UNCHANGED <<zipEntries, downloadedImages, processedMarkdown>>
  /\ infoIdx' = infoIdx + 1
  /\ pc' = "images"
  /\ filename' = <<>>
  /\ imageData' = <<>>
  /\ UNCHANGED <<nArticles, ctx, repoVars, docIdx, markdownContent, imageInfos, zipClosed, ret,
                 reqURL, attempts, fetched, fixVars>>

\* addFileToZip(zipWriter, "images/"+filename, imageData) succeeds or fails
AddImage ==
  /\ pc = "addimg"
  /\ \/ /\ zipEntries' = Append(zipEntries, ZipEntry(<<"images/">> \o filename, imageData))
        /\ downloadedImages' =
             [u \in DOMAIN downloadedImages \cup {imgInfo.OriginalURL} |->
                IF u = imgInfo.OriginalURL THEN filename ELSE downloadedImages[u]]
        /\ processedMarkdown' = ReplaceAll(processedMarkdown, imgInfo.Placeholder,
                LocalLink(imgInfo.Alt, filename))
        /\ outcomes' = Append(outcomes, "none")
     \/ /\ outcomes' = Append(outcomes, "zip")
        /\ UNCHANGED <<zipEntries, downloadedImages, processedMarkdown>>
  /\ infoIdx' = infoIdx + 1
  /\ pc' = "images"
  /\ filename' = <<>>
  /\ imageData' = <<>>
  /\ UNCHANGED <<nArticles, ctx, repoVars, docIdx, markdownContent, imageInfos, zipClosed, ret,
                 reqURL, attempts, fetched, fixVars>>

\* addFileToZip(zipWriter, generateFilename(article), processedMarkdown)
\* succeeds or fails; either way the loop goes on with the next article
WriteArticle ==
  /\ pc = "images" /\ infoIdx > Len(imageInfos)
  /\ \/ zipEntries' = Append(zipEntries, ZipEntry(generateFilename(docIdx + 1), Markdown))
     \/ UNCHANGED zipEntries
  /\ docIdx' = docIdx + 1
  /\ pc' = "articles"
  /\ markdownContent' = <<>>
  /\ processedMarkdown' = <<>>
  /\ imageInfos' = <<>>
  /\ infoIdx' = 1
  /\ outcomes' = <<>>
  /\ attempts' = 0
  /\ UNCHANGED <<nArticles, ctx, repoVars, downloadedImages, zipClosed, ret, reqURL, filename, imageData,
                 fetched, fixVars>>

\* (mutant) the archive is closed inside the article loop
CloseZipEarly ==
  /\ pc = "articles"
  /\ \/ zipClosed' = "closed" /\ ret' = [bytes |-> "zip", err |-> "none"]
     \/ zipClosed' = "failed" /\ ret' = [bytes |-> "none", err |-> "close"]
  /\ pc' = "done"
  /\ UNCHANGED <<nArticles, ctx, repoVars, docIdx, markdownContent, processedMarkdown, imageInfos,
                 infoIdx, downloadedImages, zipEntries, reqURL, attempts, filename, imageData,
                 fetched, outcomes, fixVars>>

\* zipWriter.Close() and return
CloseZip ==
  /\ pc = "articles" /\ docIdx = nArticles
  /\ \/ zipClosed' = "closed" /\ ret' = [bytes |-> "zip", err |-> "none"]
     \/ zipClosed' = "failed" /\ ret' = [bytes |-> "none", err |-> "close"]
  /\ pc' = "done"
  /\ UNCHANGED <<nArticles, ctx, repoVars, docIdx, markdownContent, processedMarkdown, imageInfos,
                 infoIdx, downloadedImages, zipEntries, reqURL, attempts, filename, imageData,
                 fetched, outcomes, fixVars>>

Next ==
  \/ StartArticle \/ CacheHit \/ ReadLocalImage \/ DownloadImage \/ DownloadOK
  \/ DownloadRetryProxy \/ DownloadOverflow \/ DownloadError
  \/ AddImage \/ WriteArticle \/ CloseZip

Spec == Init /\ [][Next]_vars

\* ------------------------------------------------- cmd/fix_images, normalizer
\* strings.Contains on a whole text: the lexeme occurs as plain text or in some
\* link target
RECURSIVE TextContains(_, _)
TextContains(text, lex) ==
  \E j \in DOMAIN text :
     \/ text[j].k = "txt" /\ text[j].s = lex
     \/ text[j].k = "img" /\ (Contains(text[j].url, lex) \/ TextContains(text[j].alt, lex))

containsYuqueImage(markdown) ==
  Len(markdown) > 0 /\ (TextContains(markdown, "cdn.nlark.com")
                        \/ TextContains(markdown, "yuque.com"))

\* strings.ReplaceAll(content, "![alt](old)", "![alt](new)")
RECURSIVE ReplaceLink(_, _, _)
ReplaceLink(text, old, new) ==
  [j \in DOMAIN text |->
     IF text[j] = old THEN new
     ELSE IF text[j].k = "img" THEN Img(ReplaceLink(text[j].alt, old, new), text[j].url)
     ELSE text[j]]

\* (mutant) only local links are skipped
AlreadyProcessedLocalOnly(originalURL) == HasPrefix(originalURL, "/uploads/")

\* the skip test of ProcessMarkdownImages
AlreadyProcessed(originalURL) ==
  \/ HasPrefix(originalURL, "/uploads/")
  \/ Contains(originalURL, "oss-cn-")
  \/ Contains(originalURL, "aliyuncs.com")

\* http.Client.Do can only reach a server for an http or https url
Fetchable(url) == HasPrefix(url, "http://") \/ HasPrefix(url, "https://")

getExtByContentType(contentType) ==
  CASE contentType = "image/jpeg" -> ".jpg"
    [] contentType = "image/png" -> ".png"
    [] contentType = "image/gif" -> ".gif"
    [] contentType = "image/webp" -> ".webp"
    [] contentType = "image/svg+xml" -> ".svg"
    [] OTHER -> ".jpg"

\* filepath.Ext(url), replaced by the content type when empty or longer than 5
ExtOf(url, contentType) ==
  IF Len(url) > 0 /\ url[Len(url)] = "x.png" THEN ".png"
  ELSE getExtByContentType(contentType)

\* oss.UploadBytes(imgData, filename): the URL of the stored object, on OSS or,
\* when OSS is not available, on the local storage
UploadedURLs(name) ==
  { <<"https://", "bucket.", "oss-cn-", "hangzhou.", "aliyuncs.com", "/">> \o name,
    <<"/uploads/">> \o name }

\* fmt.Sprintf("%s/%s/%s%s", p.folder, date, uuid.New().String(), ext)
UploadName(seq, ext) == <<"articles/", "2025/11/28/", "uuid-" \o ToString(seq), ext>>

InitFix == pc = "fx_articles" /\ InitData

match == matches[matchIdx]
InMatchLoop == pc = "fx_matches" /\ matchIdx <= Len(matches)

\* (mutant) the article without a yuque image is passed over without skipCount++
FixSkipArticleUncounted ==
  /\ pc = "fx_articles" /\ docIdx < nArticles
  /\ \E body \in Bodies : ~containsYuqueImage(body)
  /\ docIdx' = docIdx + 1
  /\ UNCHANGED <<pc, nArticles, ctx, repoVars, reqURL, attempts, outcomes, exportVars,
                 article, content, matches, runs, matchIdx, downloads, uuidSeq, counts,
                 dbUpdates>>

\* for i, article := range articles: not a yuque article, skipCount++
FixSkipArticle ==
  /\ pc = "fx_articles" /\ docIdx < nArticles
  /\ \E body \in Bodies : ~containsYuqueImage(body)
  /\ counts' = [counts EXCEPT !.skip = @ + 1]
  /\ docIdx' = docIdx + 1
  /\ UNCHANGED <<pc, nArticles, ctx, repoVars, reqURL, attempts, outcomes, exportVars, article,
                 content, matches, runs, matchIdx, downloads, uuidSeq, dbUpdates>>

\* processor.ProcessMarkdownImages(article.ContentMarkdown) is entered
FixStartArticle ==
  /\ pc = "fx_articles" /\ docIdx < nArticles
  /\ \E body \in Bodies :
       /\ containsYuqueImage(body)
       /\ article' = body
       /\ content' = body
       /\ matches' = FindAllImages(body)
  /\ matchIdx' = 1
  /\ downloads' = <<>>
  /\ pc' = "fx_matches"
  /\ UNCHANGED <<nArticles, ctx, repoVars, docIdx, reqURL, attempts, outcomes, exportVars, uuidSeq,
                 counts, dbUpdates, runs>>

\* the match is a local or OSS image: continue
FixSkipMatch ==
  /\ InMatchLoop /\ AlreadyProcessed(match.url)
  /\ matchIdx' = matchIdx + 1
  /\ outcomes' = Append(outcomes, "skipped")
  /\ attempts' = 0
  /\ UNCHANGED <<pc, nArticles, ctx, repoVars, docIdx, reqURL, exportVars, article, content,
                 matches, runs, downloads, uuidSeq, counts, dbUpdates>>

\* p.downloadAndUploadImage(originalURL) is called
FixDownload ==
  /\ InMatchLoop /\ ~AlreadyProcessed(match.url)
  /\ downloads' = Append(downloads, match.url)
  /\ reqURL' = match.url
  /\ attempts' = 0
  /\ pc' = "fx_download"
  /\ UNCHANGED <<nArticles, ctx, repoVars, docIdx, outcomes, exportVars, article, content, matches, runs,
                 matchIdx, uuidSeq, counts, dbUpdates>>

\* downloadAndUploadImage returned an error: continue with the next match
FixMatchFailed(why) ==
  /\ outcomes' = Append(outcomes, why)
  /\ matchIdx' = matchIdx + 1
  /\ pc' = "fx_matches"
  /\ reqURL' = <<>>
  /\ UNCHANGED <<nArticles, ctx, repoVars, docIdx, exportVars, article, content, matches, runs, downloads,
                 counts, dbUpdates>>

\* tryDownload(client, url) or tryDownload(client, proxyURL) succeeds
FixDownloadOK ==
  /\ pc \in {"fx_download", "fx_proxy"} /\ Fetchable(reqURL)
  /\ attempts' = attempts + 1
  /\ pc' = "fx_upload"
  /\ UNCHANGED <<nArticles, ctx, repoVars, docIdx, reqURL, outcomes, exportVars, fixVars>>

\* tryDownload(client, url) fails for a hostile host: try the proxy
FixRetryProxy ==
  /\ pc = "fx_download" /\ IsHostile(reqURL)
  /\ attempts' = attempts + 1
  /\ reqURL' = ProxyURL(reqURL)
  /\ pc' = "fx_proxy"
  /\ UNCHANGED <<nArticles, ctx, repoVars, docIdx, outcomes, exportVars, fixVars>>

\* tryDownload fails for any other host, or the proxy download fails too
FixDownloadError ==
  /\ \/ pc = "fx_download" /\ ~IsHostile(reqURL)
     \/ pc = "fx_proxy"
  /\ \E why \in {"transport", "status", "readall"} :
       /\ ~Fetchable(reqURL) => why = "transport"
       /\ FixMatchFailed(why)
  /\ attempts' = attempts + 1
  /\ UNCHANGED uuidSeq

\* oss.UploadBytes, then the link is replaced in content
FixUpload ==
  /\ pc = "fx_upload"
  /\ uuidSeq' = uuidSeq + 1
  /\ \/ /\ \E contentType \in ContentTypes :
             \E uploadedURL \in UploadedURLs(UploadName(uuidSeq + 1,
                                                       ExtOf(match.url, contentType))) :
                content' = ReplaceLink(content, Img(match.alt, match.url),
                                       Img(match.alt, uploadedURL))
        /\ matchIdx' = matchIdx + 1
        /\ pc' = "fx_matches"
        /\ reqURL' = <<>>
        /\ outcomes' = Append(outcomes, "none")
        /\ UNCHANGED <<nArticles, ctx, repoVars, docIdx, exportVars, article, matches, runs, downloads,
                       counts, dbUpdates>>
     \/ FixMatchFailed("upload")
  /\ UNCHANGED attempts

\* (mutant) the record is updated without comparing the bodies
FixFinishArticleNoCompare ==
  /\ pc = "fx_matches" /\ matchIdx > Len(matches)
  /\ \/ /\ counts' = [counts EXCEPT !.success = @ + 1]
        /\ dbUpdates' = dbUpdates + 1
     \/ /\ counts' = [counts EXCEPT !.fail = @ + 1]
        /\ UNCHANGED dbUpdates
  /\ docIdx' = docIdx + 1
  /\ pc' = "fx_articles"
  /\ article' = <<>>
  /\ content' = <<>>
  /\ matches' = <<>>
  /\ matchIdx' = 1
  /\ downloads' = <<>>
  /\ outcomes' = <<>>
  /\ attempts' = 0
  /\ runs' = <<>>
  /\ UNCHANGED <<nArticles, ctx, repoVars, reqURL, exportVars, uuidSeq>>

\* ProcessMarkdownImages returns; main compares, updates the record and counts
FixFinishArticle ==
  /\ pc = "fx_matches" /\ matchIdx > Len(matches)
  /\ \/ /\ content = article
        /\ counts' = [counts EXCEPT !.skip = @ + 1]
        /\ UNCHANGED dbUpdates
     \/ /\ content # article
        /\ counts' = [counts EXCEPT !.success = @ + 1]
        /\ dbUpdates' = dbUpdates + 1
     \/ /\ content # article
        /\ counts' = [counts EXCEPT !.fail = @ + 1]
        /\ UNCHANGED dbUpdates
  /\ docIdx' = docIdx + 1
  /\ pc' = "fx_articles"
  /\ article' = <<>>
  /\ content' = <<>>
  /\ matches' = <<>>
  /\ matchIdx' = 1
  /\ downloads' = <<>>
  /\ outcomes' = <<>>
  /\ attempts' = 0
  /\ runs' = <<>>
  /\ UNCHANGED <<nArticles, ctx, repoVars, reqURL, exportVars, uuidSeq>>

\* ProcessMarkdownImages is called a second time, with the body it returned
FixRunAgain ==
  /\ pc = "fx_matches" /\ matchIdx > Len(matches)
  /\ runs = <<>>
  /\ runs' = <<[body |-> content, outcomes |-> outcomes]>>
  /\ matches' = FindAllImages(content)
  /\ matchIdx' = 1
  /\ downloads' = <<>>
  /\ outcomes' = <<>>
  /\ attempts' = 0
  /\ UNCHANGED <<pc, nArticles, ctx, repoVars, docIdx, reqURL, exportVars, article, content, uuidSeq,
                 counts, dbUpdates>>

\* the statistics are printed
FixDone ==
  /\ pc = "fx_articles" /\ docIdx = nArticles
  /\ pc' = "fx_done"
  /\ UNCHANGED <<nArticles, ctx, repoVars, docIdx, reqURL, attempts, outcomes, exportVars, fixVars>>

NextFix ==
  \/ FixSkipArticle \/ FixStartArticle \/ FixSkipMatch \/ FixDownload
  \/ FixDownloadOK \/ FixRetryProxy \/ FixDownloadError \/ FixUpload
  \/ FixFinishArticle \/ FixDone

SpecFix == InitFix /\ [][NextFix]_vars

\* the normalizer applied twice in succession to the body of one article
InitFixTwice == InitFix /\ nArticles <= 1
NextFixTwice == NextFix \/ FixRunAgain
SpecFixTwice == InitFixTwice /\ [][NextFixTwice]_vars

\* ----------------------------------------- extractFilename on its own
\* urls https://a.com/ followed by up to MaxSegs lexemes
SegLex == {"a/", "x.png", "y", "?url=", "/"}
RECURSIVE LexSeqs(_, _)
LexSeqs(lex, n) ==
  IF n = 0 THEN {<<>>}
  ELSE LET S == LexSeqs(lex, n - 1)
       IN S \cup {Append(s, e) : s \in {t \in S : Len(t) = n - 1}, e \in lex}

InitFilename ==
  /\ pc = "ef_call" /\ InitLocals /\ nArticles = 0 /\ ctx = Context(<<>>) /\ NoRepo
  /\ \E segs \in LexSeqs(SegLex, MaxSegs) : reqURL = <<"https://", "a.com", "/">> \o segs

\* filename := e.extractFilename(url, resp.Header.Get("Content-Type"))
ExtractFilenameCall ==
  /\ pc = "ef_call"
  /\ \E contentType \in ContentTypes : filename' = extractFilename(reqURL, contentType)
  /\ pc' = "ef_done"
  /\ UNCHANGED <<nArticles, ctx, repoVars, docIdx, reqURL, attempts, outcomes, markdownContent,
                 processedMarkdown, imageInfos, infoIdx, downloadedImages, zipEntries,
                 zipClosed, ret, imageData, fetched, fixVars>>

NextFilename == ExtractFilenameCall
SpecFilename == InitFilename /\ [][NextFilename]_vars

\* ------------------------------- the exporter on one local reference
\* /uploads/ followed by up to MaxSegs directory lexemes and a file name
DirLex == {"a/", "../", "etc/"}
LocalURLs ==
  {<<"/uploads/">> \o dirs \o <<file>> :
      dirs \in LexSeqs(DirLex, MaxSegs), file \in {"x.png", "passwd"}}

InitLocal == Init /\ nArticles <= 1

\* StartArticle for an article whose body is one link to a local path
StartArticleLocal ==
  /\ pc = "articles" /\ docIdx < nArticles
  /\ \E u \in LocalURLs :
       LET body == <<Img(<<Txt("a")>>, u)>>
           r == extractImages(generateMarkdownWithFrontMatter(body))
       IN /\ markdownContent' = generateMarkdownWithFrontMatter(body)
          /\ processedMarkdown' = r.markdown
          /\ imageInfos' = r.imageInfos
  /\ infoIdx' = 1
  /\ pc' = "images"
  /\ UNCHANGED <<nArticles, ctx, repoVars, docIdx, downloadedImages, zipEntries, zipClosed, ret,
                 reqURL, filename, imageData, attempts, fetched, outcomes, fixVars>>

NextLocal ==
  \/ StartArticleLocal \/ ReadLocalImage \/ AddImage \/ WriteArticle \/ CloseZip
SpecLocal == InitLocal /\ [][NextLocal]_vars

\* ------------------------------------------- middleware.JWTAuth
\* Authorization headers: up to MaxWords words separated by single spaces (an
\* empty word stands for two spaces in a row or a space at the end)
Words == {"Bearer", "bearer", "Basic", "tokA", "tokB", "junk", ""}
Headers == LexSeqs(Words, MaxWords)

\* strings.SplitN(authHeader, " ", 2)
SplitN2(header) ==
  IF Len(header) <= 1 THEN <<header>>
  ELSE <<SubSeq(header, 1, 1), SubSeq(header, 2, Len(header))>>

\* jwt.ParseToken(token): the claims of a token this server signed, or an
\* error (also for a signed token, once it has expired)
Claims ==
  (<<"tokA">> :> [AdminID |-> 1, Username |-> "alice", Role |-> "admin"]) @@
  (<<"tokB">> :> [AdminID |-> 2, Username |-> "bob", Role |-> "user"])
ParseToken(token) ==
  {[claims |-> <<>>, err |-> "invalid"]} \cup
  (IF token \in DOMAIN Claims THEN {[claims |-> Claims[token], err |-> "none"]} ELSE {})

\* response.Unauthorized(c, msg)
Unauthorized(c) == [c EXCEPT !.status = 401]
\* c.Abort()
Abort(c) == [c EXCEPT !.aborted = TRUE]
\* c.Set("admin_id", ...) ... c.Set("role", ...)
SetClaims(c, claims) ==
  [c EXCEPT !.keys = [admin_id |-> claims.AdminID, user_id |-> claims.AdminID,
                      username |-> claims.Username, role |-> claims.Role]]
\* c.Next()
RunNext(c) == [c EXCEPT !.next = @ + 1]

InitAuth ==
  /\ pc = "mw_request" /\ InitLocals /\ nArticles = 0 /\ reqURL = <<>> /\ NoRepo
  /\ \E header \in Headers : ctx = Context(header)

\* (mutant) parts[0] is not compared with "Bearer"
JWTAuthAnyScheme ==
  /\ pc = "mw_request"
  /\ LET parts == SplitN2(ctx.header)
     IN IF ctx.header \in {<<>>, <<"">>} THEN ctx' = Abort(Unauthorized(ctx))
        ELSE IF Len(parts) # 2 THEN ctx' = Abort(Unauthorized(ctx))
        ELSE \E r \in ParseToken(parts[2]) :
               IF r.err # "none" THEN ctx' = Abort(Unauthorized(ctx))
               ELSE ctx' = RunNext(SetClaims(ctx, r.claims))
  /\ pc' = "mw_done"
  /\ UNCHANGED <<nArticles, docIdx, reqURL, attempts, outcomes, exportVars, fixVars, repoVars>>

\* the handler JWTAuth() returns, run for one request
JWTAuth ==
  /\ pc = "mw_request"
  /\ LET parts == SplitN2(ctx.header)
     IN IF ctx.header \in {<<>>, <<"">>} THEN ctx' = Abort(Unauthorized(ctx))
        ELSE IF Len(parts) # 2 \/ parts[1] # <<"Bearer">>
        THEN ctx' = Abort(Unauthorized(ctx))
        ELSE \E r \in ParseToken(parts[2]) :
               IF r.err # "none" THEN ctx' = Abort(Unauthorized(ctx))
               ELSE ctx' = RunNext(SetClaims(ctx, r.claims))
  /\ pc' = "mw_done"
  /\ UNCHANGED <<nArticles, docIdx, reqURL, attempts, outcomes, exportVars, fixVars, repoVars>>

NextAuth == JWTAuth
SpecAuth == InitAuth /\ [][NextAuth]_vars

\* ------------------------------------------- middleware.OptionalJWTAuth
InitOptionalAuth ==
  /\ pc = "opt_request" /\ InitLocals /\ nArticles = 0 /\ reqURL = <<>> /\ NoRepo
  /\ \E header \in Headers : ctx = Context(header)

\* (mutant) an invalid token is turned away as JWTAuth does
OptionalJWTAuthStrict ==
  /\ pc = "opt_request"
  /\ LET parts == SplitN2(ctx.header)
     IN IF ctx.header \in {<<>>, <<"">>} THEN ctx' = RunNext(ctx) /\ outcomes' = outcomes
        ELSE IF Len(parts) # 2 \/ parts[1] # <<"Bearer">>
        THEN ctx' = RunNext(ctx) /\ outcomes' = outcomes
        ELSE \E r \in ParseToken(parts[2]) :
               /\ outcomes' = <<r.err>>
               /\ IF r.err # "none" THEN ctx' = Abort(Unauthorized(ctx))
                  ELSE ctx' = RunNext(SetClaims(ctx, r.claims))
  /\ pc' = "opt_done"
  /\ UNCHANGED <<nArticles, docIdx, reqURL, attempts, exportVars, fixVars, repoVars>>

\* the handler OptionalJWTAuth() returns, run for one request; outcomes holds
\* the err jwt.ParseToken returned, when it was called
OptionalJWTAuth ==
  /\ pc = "opt_request"
  /\ LET parts == SplitN2(ctx.header)
     IN IF ctx.header \in {<<>>, <<"">>} THEN ctx' = RunNext(ctx) /\ outcomes' = outcomes
        ELSE IF Len(parts) # 2 \/ parts[1] # <<"Bearer">>
        THEN ctx' = RunNext(ctx) /\ outcomes' = outcomes
        ELSE \E r \in ParseToken(parts[2]) :
               /\ outcomes' = <<r.err>>
               /\ IF r.err # "none" THEN ctx' = RunNext(ctx)
                  ELSE ctx' = RunNext(SetClaims(ctx, r.claims))
  /\ pc' = "opt_done"
  /\ UNCHANGED <<nArticles, docIdx, reqURL, attempts, exportVars, fixVars, repoVars>>

NextOptionalAuth == OptionalJWTAuth
SpecOptionalAuth == InitOptionalAuth /\ [][NextOptionalAuth]_vars

\* ------------------------------------------- articleRepo counters
\* ids of the rows of the articles table
ArticleIDs == {1, 2}
Columns == {"like_count", "favorite_count", "comment_count"}

InitRepo ==
  /\ pc = "repo" /\ InitLocals /\ nArticles = 0 /\ reqURL = <<>> /\ ctx = Context(<<>>)
  /\ articleRows \in [ArticleIDs -> [Columns -> 0..MaxCount]]
  /\ repoErr = "none" /\ repoCall = NoCall

\* r.db.Model(&po.Article{}).Where("id = ?" [+ " AND <column> > 0"], id).
\*   UpdateColumn(column, gorm.Expr("<column> + ?" / "<column> - ?", 1)).Error
\* one UPDATE statement: the database either fails it (the error is returned,
\* no row changes) or applies it to the rows the WHERE clause selects; no
\* selected row is not an error
UpdateColumn(id, column, positiveOnly, delta) ==
  /\ pc = "repo"
  /\ \/ /\ repoErr' = "db"
        /\ articleRows' = articleRows
     \/ /\ repoErr' = "none"
        /\ IF id \in DOMAIN articleRows /\ (positiveOnly => articleRows[id][column] > 0)
           THEN /\ articleRows[id][column] + delta <= MaxCount
                /\ articleRows' = [articleRows EXCEPT ![id][column] = @ + delta]
           ELSE articleRows' = articleRows
  /\ UNCHANGED <<pc, nArticles, docIdx, reqURL, attempts, outcomes, exportVars, fixVars,
                 ctx>>

\* the record of a call of method fn
Called(fn, id) == [fn |-> fn, id |-> id, before |-> articleRows]

IncrementLikeCount(id) ==
  UpdateColumn(id, "like_count", FALSE, 1) /\ repoCall' = Called("IncrementLikeCount", id)
\* (mutant) WHERE "id = ?" alone
DecrementLikeCountUnguarded(id) ==
  UpdateColumn(id, "like_count", FALSE, -1) /\ repoCall' = Called("DecrementLikeCount", id)
DecrementLikeCount(id) ==
  UpdateColumn(id, "like_count", TRUE, -1) /\ repoCall' = Called("DecrementLikeCount", id)
IncrementFavoriteCount(id) ==
  UpdateColumn(id, "favorite_count", FALSE, 1) /\ repoCall' = Called("IncrementFavoriteCount", id)
DecrementFavoriteCount(id) ==
  UpdateColumn(id, "favorite_count", TRUE, -1) /\ repoCall' = Called("DecrementFavoriteCount", id)
IncrementCommentCount(id) ==
  UpdateColumn(id, "comment_count", FALSE, 1) /\ repoCall' = Called("IncrementCommentCount", id)
DecrementCommentCount(id) ==
  UpdateColumn(id, "comment_count", TRUE, -1) /\ repoCall' = Called("DecrementCommentCount", id)

\* ids the methods are called with: the articles and an id no row has
CallIDs == 1..3
NextRepo ==
  \/ \E id \in CallIDs : IncrementLikeCount(id)
  \/ \E id \in CallIDs : DecrementLikeCount(id)
  \/ \E id \in CallIDs : IncrementFavoriteCount(id)
  \/ \E id \in CallIDs : DecrementFavoriteCount(id)
  \/ \E id \in CallIDs : IncrementCommentCount(id)
  \/ \E id \in CallIDs : DecrementCommentCount(id)
SpecRepo == InitRepo /\ [][NextRepo]_vars

\* either program: the exporter or fix_images
SpecAny == (Init \/ InitFix) /\ [][Next \/ NextFix]_vars

\* ---------------------------------------------------------------- claims
\* positions of the image links to url u in a text
Occ(text, u) == {j \in DOMAIN text : text[j].k = "img" /\ text[j].url = u}
LinkedURLs(text) == {text[j].url : j \in {i \in DOMAIN text : text[i].k = "img"}}
InfosOf(u) == {i \in DOMAIN imageInfos : imageInfos[i].OriginalURL = u}
IsRelative(u) == HasPrefix(u, "./") \/ HasPrefix(u, "../")
\* the reference last handled, between two references
BetweenRefs == pc \in {"images", "fx_matches"} /\ outcomes # <<>>
LastRef == Len(outcomes)
\* ExportToZip is inside the loop body of one article
InArticle == pc \in {"images", "download", "addimg", "crashed"}
\* the reference loop of the article is over: processedMarkdown is what is written
LoopDone == pc = "images" /\ infoIdx > Len(imageInfos)
InFix == pc \in {"fx_matches", "fx_download", "fx_proxy", "fx_upload"}
FetchErrors == {"readfile", "transport", "status", "readall"}
RefURL(i) == IF InFix THEN matches[i].url ELSE imageInfos[i].OriginalURL

RECURSIVE HasPlaceholder(_, _)
HasPlaceholder(text, n) ==
  \E j \in DOMAIN text :
     \/ text[j].k = "ph" /\ text[j].n = n
     \/ text[j].k = "img" /\ HasPlaceholder(text[j].alt, n)

\* C1: the document text written to the archive contains none of the
\* placeholder tokens that extractImages introduced, whatever the outcome of
\* each reference (cache hit, fetch ok, fetch failed, image entry not written).
C1_NoPlaceholderLeft ==
  LoopDone =>
    \A i \in DOMAIN imageInfos :
       ~HasPlaceholder(processedMarkdown, imageInfos[i].Placeholder)

\* C2: within one ExportToZip call readLocalImage/downloadImage is invoked at
\* most once for any original URL, whether the first fetch succeeded or failed.
C2_FetchedAtMostOnce ==
  [][(ReadLocalImage \/ DownloadImage) => imgInfo.OriginalURL \notin fetched]_vars

\* C3: a reference to a hostile host whose primary retrieval failed with a
\* transport error or a non-200 status is given up only after the proxy was
\* tried as well, and a reference that was fetched (directly or through the
\* proxy) is rewritten to ./images/<filename>; in the exporter and the normalizer.
C3_ProxyRetry ==
  /\ BetweenRefs =>
       ((outcomes[LastRef] \in {"transport", "status"} /\ IsHostile(RefURL(LastRef)))
           => attempts >= 2)
  /\ InArticle =>
       \A i \in DOMAIN outcomes :
          outcomes[i] = "none" =>
             \A j \in Occ(markdownContent, imageInfos[i].OriginalURL) :
                processedMarkdown[j].k = "img" /\ IsRelative(processedMarkdown[j].url)

\* C4: a fetch makes at most two retrieval attempts (the primary one and one
\* through the proxy) and then returns.
C4_AtMostTwoAttempts ==
  /\ attempts <= 2
  /\ pc # "crashed"

\* C5: every occurrence of a reference whose fetch failed is restored to its
\* original `![alt](originalURL)` text, also when the URL occurs several times
\* with different alt texts (so that the links of a document all of whose
\* fetches failed are written as they were in the original body).
C5_FailedRestored ==
  InArticle =>
    \A i \in DOMAIN outcomes :
       outcomes[i] \in FetchErrors =>
          \A j \in Occ(markdownContent, imageInfos[i].OriginalURL) :
             processedMarkdown[j] = markdownContent[j]

\* the occurrences of u are all the same placeholder until the reference is
\* handled, and all the same text at any time
SameForm(u) ==
  /\ Cardinality(InfosOf(u)) = 1
  /\ \A j, k \in Occ(markdownContent, u) : processedMarkdown[j] = processedMarkdown[k]
  /\ \A i \in InfosOf(u) :
        i > Len(outcomes) =>
           \A j \in Occ(markdownContent, u) :
              processedMarkdown[j] = Placeholder(imageInfos[i].Placeholder)

\* C6 as stated: for any URL that occurs two or more times in one document,
\* extractImages produces exactly one ImageInfo, replaces every occurrence by
\* the same placeholder, and after rewriting all occurrences have the same form.
C6_AnyURLOneInfo ==
  InArticle =>
    \A u \in LinkedURLs(markdownContent) :
       Cardinality(Occ(markdownContent, u)) >= 2 => SameForm(u)

\* C6 amended: the same for any local (/uploads/...) or remote (http://,
\* https://) URL that occurs two or more times in one document.
C6_ExtractedURLOneInfo ==
  InArticle =>
    \A u \in LinkedURLs(markdownContent) :
       (Cardinality(Occ(markdownContent, u)) >= 2 /\ ImageType(u) # "")
          => SameForm(u)

\* a URL occurs twice with different alt texts and both were rewritten
C6_Witness ==
  /\ LoopDone
  /\ \E u \in LinkedURLs(markdownContent) :
        /\ ImageType(u) # ""
        /\ \E j, k \in Occ(markdownContent, u) :
              /\ markdownContent[j] # markdownContent[k]
              /\ processedMarkdown[j].k = "img"
              /\ processedMarkdown[j].url # u

\* C7: the normalizer hands only remote (http://, https://) targets to
\* downloadAndUploadImage, and leaves every other link as it was.
C7_OnlyRemoteDownloaded ==
  /\ \A i \in DOMAIN downloads : Fetchable(downloads[i])
  /\ InFix =>
       \A j \in DOMAIN article :
          (article[j].k = "img" /\ ~Fetchable(article[j].url)) => content[j] = article[j]

\* C8: in export a link whose target begins with ./ or ../ is not extracted,
\* keeps its text through extractImages and the rewrite loop, and is not fetched.
C8_RelativeUntouched ==
  InArticle =>
    \A j \in DOMAIN markdownContent :
       (markdownContent[j].k = "img" /\ IsRelative(markdownContent[j].url)) =>
          /\ InfosOf(markdownContent[j].url) = {}
          /\ processedMarkdown[j] = markdownContent[j]
          /\ markdownContent[j].url \notin fetched

\* C9: no failure of a fetch, of an image entry or of a document entry aborts
\* the batch: every reference and every article is processed, and the call
\* returns an error only when closing the archive fails.
C9_NeverAborts ==
  /\ pc # "crashed"
  /\ LoopDone => Len(outcomes) = Len(imageInfos)
  /\ pc = "done" => docIdx = nArticles
  /\ ret.err # "none" => zipClosed = "failed"

\* C10: the archive is closed only after every article has been processed, the
\* archive bytes are returned only from a closed archive, and a failed close
\* returns no bytes and an error.
C10_CloseAfterAll ==
  /\ zipClosed # "open" => (docIdx = nArticles /\ pc = "done")
  /\ ret.bytes # "none" => (zipClosed = "closed" /\ ret.err = "none")
  /\ zipClosed = "failed" => ret = [bytes |-> "none", err |-> "close"]
  /\ pc = "done" => zipClosed # "open"

\* two articles were processed, one of them not written, and the close failed
C10_Witness ==
  /\ pc = "done" /\ nArticles >= 2 /\ zipClosed = "failed"
  /\ \E i \in 1..nArticles : \A e \in DOMAIN zipEntries : zipEntries[e].name # generateFilename(i)

\* the images/ entries of the archive that hold the bytes of original URL u
DataOf(u) == IF ImageType(u) = "local" THEN ResolvePath(LocalPath(u)) ELSE u
IsImageEntry(e) == HasPrefix(zipEntries[e].name, "images/")
ImageEntriesOf(u) == {e \in DOMAIN zipEntries : IsImageEntry(e) /\ zipEntries[e].data = DataOf(u)}
\* every occurrence of the i-th reference links to the cached file name
LinksToCached(i) ==
  LET u == imageInfos[i].OriginalURL
  IN /\ Cached(u)
     /\ \A j \in Occ(markdownContent, u) :
           /\ processedMarkdown[j].k = "img"
           /\ processedMarkdown[j].url = <<"./", "images/">> \o CachedName(u)
AddedOnce(errs) ==
  /\ \A u \in URLs : Cardinality(ImageEntriesOf(u)) <= 1
  /\ \A u \in URLs : Cached(u) => Cardinality(ImageEntriesOf(u)) = 1
  /\ pc = "images" =>
       \A i \in DOMAIN outcomes :
          outcomes[i] \in errs =>
             /\ Cardinality(ImageEntriesOf(imageInfos[i].OriginalURL)) = 1
             /\ LinksToCached(i)

\* C11 as stated: every original URL whose fetch succeeded has exactly one
\* images/ entry in the archive, whatever the number of documents and
\* occurrences, and every reference to it links to the recorded file name.
C11_FetchedAddedOnce == AddedOnce({"none", "cached", "zip"})

\* C11 amended: no original URL has more than one images/ entry; a URL whose
\* fetch succeeded and whose entry was written has exactly one, and every
\* later reference to it is a cache hit that links to the recorded file name.
C11_StoredAddedOnce == AddedOnce({"none", "cached"})

\* the second article refers to a URL stored for the first: cache hit, one entry
C11_Witness ==
  /\ pc = "images" /\ docIdx >= 1
  /\ \E i \in DOMAIN outcomes :
        /\ outcomes[i] = "cached"
        /\ Cardinality(ImageEntriesOf(imageInfos[i].OriginalURL)) = 1
        /\ Cardinality(Occ(markdownContent, imageInfos[i].OriginalURL)) >= 2

\* the second run of ProcessMarkdownImages on the article is over
SecondRunDone == pc = "fx_matches" /\ matchIdx > Len(matches) /\ runs # <<>>
FirstRunClean == \A i \in DOMAIN runs[1].outcomes : runs[1].outcomes[i] \in {"none", "skipped"}

C13_DownloadedOnce ==
  \A i, j \in DOMAIN downloads : downloads[i] = downloads[j] => i = j

\* C14: whatever in the document is not a local or remote image link (plain
\* text, text of the form __IMG_PLACEHOLDER_n__, links of any other kind with
\* their alt text) is in processedMarkdown as it was in the generated text.
C14_OtherTextPreserved ==
  InArticle =>
    \A j \in DOMAIN markdownContent :
       ~(markdownContent[j].k = "img" /\ ImageType(markdownContent[j].url) # "")
          => processedMarkdown[j] = markdownContent[j]

\* C15: the record of an article is updated only at the end of its
\* ProcessMarkdownImages run and only when the returned body differs from the
\* stored one; a short-circuited or an unchanged article is not written.
C15_WriteOnlyWhenChanged ==
  [][dbUpdates' # dbUpdates =>
       /\ pc = "fx_matches" /\ matchIdx > Len(matches)
       /\ content # article
       /\ dbUpdates' = dbUpdates + 1]_vars

\* the first article went through an upload that failed, came back unchanged,
\* and was counted as skipped without a write
C15_Witness ==
  /\ pc = "fx_articles" /\ docIdx = 1
  /\ uuidSeq >= 1 /\ counts.skip = 1 /\ dbUpdates = 0

NoImageSyntax(text) == \A j \in DOMAIN text : text[j].k # "img"

\* C16: for a body without image-link syntax extractImages returns the text
\* unchanged with no ImageInfo, and ProcessMarkdownImages finds no match, hands
\* nothing to downloadAndUploadImage and returns the body unchanged.
C16_NoImageUnchanged ==
  /\ (InArticle /\ NoImageSyntax(markdownContent)) =>
        (processedMarkdown = markdownContent /\ imageInfos = <<>>)
  /\ (InFix /\ NoImageSyntax(article)) =>
        (matches = <<>> /\ downloads = <<>> /\ content = article)

\* ProcessMarkdownImages was entered with a body that names the host in plain
\* text only
C16_Witness ==
  /\ pc = "fx_matches" /\ article # <<>> /\ NoImageSyntax(article)
  /\ content = article

HasDot(name) == \E i \in DOMAIN name : name[i] \in DotLex

\* C17: extractFilename returns the last path segment of the url without its
\* query whenever that segment contains a dot (wherever the query has "/"),
\* and a generated name with the extension of the content type otherwise.
C17_QueryStrippedFirst ==
  pc = "ef_done" =>
    LET segment == LastSegment(StripQuery(reqURL))
    IN IF HasDot(segment) THEN filename = segment
       ELSE /\ filename[1] = "UnixNano"
            /\ filename[2] \in {getExtensionFromContentType(c) : c \in ContentTypes}

\* C18: no two images/ entries of the archive have the same name, and no two
\* original URLs are recorded with the same file name.
C18_UniqueAssetNames ==
  /\ \A d, e \in DOMAIN zipEntries :
        (IsImageEntry(d) /\ IsImageEntry(e) /\ zipEntries[d].name = zipEntries[e].name)
           => d = e
  /\ \A u, v \in DOMAIN downloadedImages :
        downloadedImages[u] = downloadedImages[v] => u = v

\* the file is in the storage root ./uploads or below it
UnderRoot(file) == Len(file) > 1 /\ file[1] = "/uploads/"

\* C19: the bytes readLocalImage returns for a local reference, and the bytes
\* of every images/ entry made from one, are those of a file under ./uploads.
C19_ReadsUnderRoot ==
  /\ (pc = "addimg" /\ imgInfo.Type = "local") => UnderRoot(imageData)
  /\ \A e \in DOMAIN zipEntries :
        (IsImageEntry(e) /\ ~Fetchable(zipEntries[e].data)) => UnderRoot(zipEntries[e].data)

\* the header is "Bearer <token>" with a token this server signed
BearerSigned(header) ==
  Len(header) >= 2 /\ header[1] = "Bearer" /\ Tail(header) \in DOMAIN Claims

\* C20: JWTAuth runs the next handler only for a header of the form
\* `Bearer <token>` whose token parsed, with the keys of its claims; any other
\* request ends aborted with status 401 and no key set.
C20_OnlyBearerPasses ==
  pc = "mw_done" =>
    IF ctx.next = 1
    THEN /\ BearerSigned(ctx.header)
         /\ ctx.keys = SetClaims(ctx, Claims[Tail(ctx.header)]).keys
         /\ ~ctx.aborted /\ ctx.status = 0
    ELSE ctx.aborted /\ ctx.status = 401 /\ ctx.keys = <<>>

\* a request with a signed token whose parse failed was turned away
C20_Witness ==
  /\ pc = "mw_done" /\ BearerSigned(ctx.header)
  /\ ctx.aborted /\ ctx.status = 401 /\ ctx.next = 0

\* the header is "Bearer <rest>": SplitN gave two parts, the first "Bearer"
BearerForm(header) == Len(header) >= 2 /\ header[1] = "Bearer"

\* C21: OptionalJWTAuth never aborts and writes no status; whatever the header
\* it calls the next handler exactly once; the four keys are set exactly when
\* the header is `Bearer <token>` and jwt.ParseToken returned no error for the
\* token, and then they are the claims of that token.
C21_OptionalNeverAborts ==
  pc = "opt_done" =>
    /\ ~ctx.aborted /\ ctx.status = 0 /\ ctx.next = 1
    /\ (ctx.keys # <<>>) <=> (BearerForm(ctx.header) /\ outcomes = <<"none">>)
    /\ ctx.keys # <<>> =>
         /\ Tail(ctx.header) \in DOMAIN Claims
         /\ ctx.keys = SetClaims(ctx, Claims[Tail(ctx.header)]).keys
    /\ outcomes # <<>> => BearerForm(ctx.header)

\* a request with a signed token whose parse failed went on to the next
\* handler with no key set
C21_Witness ==
  /\ pc = "opt_done" /\ BearerSigned(ctx.header) /\ outcomes = <<"invalid">>
  /\ ctx.next = 1 /\ ~ctx.aborted /\ ctx.keys = <<>>

\* the counter a method addresses and what it adds
ColumnOf(fn) ==
  CASE fn \in {"IncrementLikeCount", "DecrementLikeCount"} -> "like_count"
    [] fn \in {"IncrementFavoriteCount", "DecrementFavoriteCount"} -> "favorite_count"
    [] fn \in {"IncrementCommentCount", "DecrementCommentCount"} -> "comment_count"
IsDecrement(fn) == fn \in {"DecrementLikeCount", "DecrementFavoriteCount", "DecrementCommentCount"}
DeltaOf(fn) == IF IsDecrement(fn) THEN -1 ELSE 1
NonNegative ==
  \A id \in DOMAIN articleRows : \A column \in Columns : articleRows[id][column] >= 0
\* the last call addressed a counter of an existing article
CallOnArticle == repoCall # NoCall /\ repoCall.id \in DOMAIN repoCall.before
DecrementAtZero ==
  IsDecrement(repoCall.fn) /\ repoCall.before[repoCall.id][ColumnOf(repoCall.fn)] = 0
ChangedByOne ==
  articleRows = [repoCall.before EXCEPT ![repoCall.id][ColumnOf(repoCall.fn)] =
                                           @ + DeltaOf(repoCall.fn)]

\* C22 (as stated): every counter stays >= 0; a Decrement on a counter that is
\* 0 leaves it unchanged and reports no error; every other call changes the
\* addressed counter by exactly 1 and no other counter.
C22_EveryCallCounts ==
  /\ NonNegative
  /\ CallOnArticle =>
       IF DecrementAtZero THEN articleRows = repoCall.before /\ repoErr = "none"
       ELSE ChangedByOne

\* C22 (amended): every counter stays >= 0; a call that returns an error
\* changed no counter; a call that returns no error left the table unchanged
\* if it was a Decrement on a counter that is 0, and otherwise changed the
\* addressed counter by exactly 1 and no other counter.
C22_EverySuccessfulCallCounts ==
  /\ NonNegative
  /\ CallOnArticle =>
       IF repoErr # "none" \/ DecrementAtZero THEN articleRows = repoCall.before
       ELSE ChangedByOne

\* a DecrementLikeCount on an article with no like returned no error, and
\* the article has favorites that were left alone
C22_Witness ==
  /\ CallOnArticle /\ repoCall.fn = "DecrementLikeCount" /\ DecrementAtZero
  /\ repoErr = "none" /\ articleRows[repoCall.id]["favorite_count"] > 0

\* C23: in fix_images every article whose loop iteration has finished was
\* counted in exactly one of successCount, skipCount and failCount, and
\* successCount is the number of records updated; when the statistics are
\* printed every article has been processed, so the three counters add up
\* to len(articles).
C23_EveryArticleCounted ==
  pc \in {"fx_articles", "fx_matches", "fx_download", "fx_proxy", "fx_upload", "fx_done"} =>
    /\ counts.success + counts.skip + counts.fail = docIdx
    /\ counts.success = dbUpdates
    /\ pc = "fx_done" =>
         /\ docIdx = nArticles
         /\ counts.success + counts.skip + counts.fail = nArticles

\* a finished run over MaxDocs articles: one updated, and one skipped or failed
C23_Witness ==
  /\ pc = "fx_done" /\ nArticles = MaxDocs
  /\ counts.success = 1 /\ dbUpdates = 1 /\ counts.skip + counts.fail = nArticles - 1

====
